---- MODULE Spec2Model ----
(***************************************************************************)
(* Model of the ESDM RPC service plane                                     *)
(* (service-rpc/server/esdm_rpc_server.c).                                 *)
(*                                                                         *)
(*   Spec      the server process: bootstrap thread, unprivileged listener *)
(*             thread, esdm_rpc_server_fini, the two accept loops and the  *)
(*             life of every accepted connection.                          *)
(*   SpecConn  one accepted connection in detail: esdm_rpcs_read byte by   *)
(*             byte, esdm_rpcs_unpack, the reply closure, esdm_rpcs_pack.  *)
(*   SpecWrite esdm_rpcs_write_data under every pattern of short writes.   *)
(***************************************************************************)
EXTENDS Integers, Sequences, FiniteSets, TLC

VARIABLES
    \* ---- server process (Spec) ----
    uid,            \* getuid() of the server process
    bpc,            \* position of the bootstrap thread (esdm_rpcs_interfaces_init)
    upc,            \* position of the unprivileged listener thread (esdm_rpcs_unpriv_init)
    fpc,            \* position inside esdm_rpc_server_fini
    priv_proto,     \* struct esdm_rpcs of the privileged endpoint
    unpriv_proto,   \* struct esdm_rpcs of the unprivileged endpoint
    server_exit,    \* atomic_t server_exit
    stop_spawning,  \* set by thread_stop_spawning()
    woken,          \* number of thread_wake_all() calls made by the bootstrap
    conns,          \* accepted connections: state of each
    fd_closes,      \* close() calls per descriptor number
    fd_opens,       \* socket() and accept() calls that returned each number
    boot_fails,     \* bootstrap steps of the server child that have failed
    bret,           \* ret of esdm_rpcs_interfaces_init
    init_ret,       \* ret of esdm_rpc_server_init in the server child
    wake_log,       \* thread_wake_all() calls: the caller and the state it saw
    start_loc,      \* esdm_rpcs_start in each calling thread: position, fd, path
    \* ---- one connection (SpecConn) ----
    hostBE,         \* byte order of the host: TRUE = big endian
    stream,         \* bytes the peer sends that the server has not consumed yet
    hpc,            \* position of the handler thread
    buf,            \* receive buffer filled so far (total_received = Len(buf))
    data_to_fetch,  \* local of esdm_rpcs_read
    header,         \* received_data->header after conversion
    parsed,         \* times the header was converted in this esdm_rpcs_read call
    resumed,        \* a read() left the current request incomplete
    rpc_conn,       \* struct esdm_rpcs_connection
    read_ret,       \* value returned by the last esdm_rpcs_read call
    wire_out,       \* bytes the server delivered to the connection
    last,           \* record of the last request handed to esdm_rpcs_unpack
    aborted,        \* how and after how many bytes esdm_rpcs_read went to out
    \* ---- esdm_rpcs_write_data (SpecWrite) ----
    w_data,         \* data argument
    w_pattern,      \* results of the successive write() calls
    w_result,       \* return value and bytes delivered by the call
    \* ---- supervisor process (SpecSup) ----
    sup_pc,         \* position of the parent inside esdm_rpc_server_init
    sup_ret,        \* ret of esdm_rpc_server_init in the parent
    child,          \* the forked server process: "none", "alive", "exited"
    server_pid,     \* static pid_t server_pid
    sup_k,          \* signal() calls made by the running esdm_rpcs_cleanup_signals
    disp,           \* disposition of each relayed signal in the parent
    hstack,         \* esdm_rpcs_cleanup_term calls in progress, innermost last
    sig_log,        \* signals delivered to the parent and what became of them
    cleanup_log,    \* esdm_rpcs_cleanup calls: who ran it and the child's state
    fs,             \* the OS-visible resources that exist
    child_ep,       \* how far the child's esdm_rpcs_start got on each socket path
    live_other,     \* another server instance is live on both endpoints
    \* ---- esdm_rpc_client_is_privileged (SpecPriv) ----
    p_ret,          \* result of getsockopt(SO_PEERCRED)
    p_cred,         \* struct ucred filled by a successful getsockopt
    p_result,       \* value returned by the call
    \* ---- esdm_rpcs_start on a local endpoint (SpecStart) ----
    e_in,           \* what the system calls of this run return
    e_pc,           \* position inside esdm_rpcs_start
    e_path,         \* what exists at the socket path
    e_unlinks,      \* unlink() calls made on the socket path
    e_closes,       \* close() calls made by esdm_rpcs_start
    e_ret,          \* return value of esdm_rpcs_start
    \* ---- esdm_rpcc_is_fully_seeded_int (SpecClient) ----
    cl_in,          \* the run's inputs: service, response, stack content
    cl_pc,          \* position inside esdm_rpcc_is_fully_seeded_int
    cl_buffer,      \* struct esdm_is_fully_seeded_buf buffer
    cl_ret,         \* ret
    cl_out          \* the caller's bool behind fully_seeded

srv_vars  == <<uid, bpc, upc, fpc, priv_proto, unpriv_proto, server_exit,
               stop_spawning, woken, conns, fd_closes, fd_opens,
               boot_fails, bret,
               init_ret, wake_log, start_loc>>
conn_vars == <<hostBE, stream, hpc, buf, data_to_fetch, header, parsed, resumed,
               rpc_conn, read_ret, wire_out, last, aborted>>
wr_vars   == <<w_data, w_pattern, w_result>>
sup_vars  == <<sup_pc, sup_ret, child, server_pid, sup_k, disp, hstack,
               sig_log, cleanup_log, fs, child_ep, live_other>>
priv_vars == <<p_ret, p_cred, p_result>>
ep_vars   == <<e_in, e_pc, e_path, e_unlinks, e_closes, e_ret>>
cl_vars   == <<cl_in, cl_pc, cl_buffer, cl_ret, cl_out>>
vars      == <<srv_vars, conn_vars, wr_vars, sup_vars, priv_vars, ep_vars,
               cl_vars>>

----------------------------------------------------------------------------
(* Bounds of the model *)

\* ESDM_RPC_MAX_MSG_SIZE, scaled down
MaxMsg == 2
\* number of methods in a service table
NMethods == 2
\* frames a peer sends on one connection
MaxFrames == 2
\* connections accepted by the server
MaxConns == 2
\* length of the data handed to esdm_rpcs_write_data in SpecWrite
MaxWriteLen == 3
\* write() calls with a chosen result in SpecWrite
MaxWriteCalls == 2

----------------------------------------------------------------------------
(* Program constants *)

\* sizeof(struct esdm_rpc_proto_cs): three uint32_t, flexible data[]
HeaderSize == 12
\* sizeof(struct esdm_rpc_proto_sc_header): four uint32_t
ScHeaderSize == 16
\* uint8_t buf[ESDM_RPC_MAX_MSG_SIZE + sizeof(*received_data)]
BufSize == MaxMsg + HeaderSize

STATUS_SUCCESS == 0
STATUS_SERVICE_FAILED == 1

EINTR == 4
EIO == 5
EAGAIN == 11
ENOMEM == 12
EINVAL == 22
EPIPE == 32
ETIMEDOUT == 110
\* a failed drop_privileges_permanent returns a negative value
DROP_FAILED == -1

Min(a, b) == IF a < b THEN a ELSE b

----------------------------------------------------------------------------
(* Byte order *)

Bytes4LE(x) ==
    <<x % 256, (x \div 256) % 256, (x \div 65536) % 256, (x \div 16777216) % 256>>

Bytes4BE(x) ==
    <<(x \div 16777216) % 256, (x \div 65536) % 256, (x \div 256) % 256, x % 256>>

U32LE(b) == b[1] + 256 * b[2] + 65536 * b[3] + 16777216 * b[4]

U32BE(b) == b[4] + 256 * b[3] + 65536 * b[2] + 16777216 * b[1]

bswap32(x) == U32BE(Bytes4LE(x))

\* le_bswap32: identity on a little-endian host, byte swap on a big-endian one
le_bswap32(x) == IF hostBE THEN bswap32(x) ELSE x

\* a uint32_t read from / stored to memory in host order
NativeLoad(b) == IF hostBE THEN U32BE(b) ELSE U32LE(b)

NativeStore(x) == IF hostBE THEN Bytes4BE(x) ELSE Bytes4LE(x)

Repeat(b, n) == [i \in 1..n |-> b]

----------------------------------------------------------------------------
(* esdm_rpcs_write_data *)

\* one write(fd, data, len) after the other; pattern holds the results of the
\* first calls (negative: -errno), every later call writes all of len
RECURSIVE write_loop(_, _, _, _, _)
write_loop(data, len, pattern, written, delivered) ==
    LET ret == IF pattern = <<>> THEN len ELSE Head(pattern)
        rest == IF pattern = <<>> THEN <<>> ELSE Tail(pattern)
    IN  IF ret < 0
        THEN [ret |-> ret, delivered |-> delivered]
        ELSE IF written + ret < len
             THEN write_loop(data, len, rest, written + ret,
                             delivered \o SubSeq(data, 1, ret))
             ELSE [ret |-> 0, delivered |-> delivered \o SubSeq(data, 1, ret)]

esdm_rpcs_write_data(child_fd, data, len, pattern) ==
    IF child_fd < 0
    THEN [ret |-> -EINVAL, delivered |-> <<>>]
    ELSE write_loop(data, len, pattern, 0, <<>>)

----------------------------------------------------------------------------
(* Reply framing: esdm_rpcs_pack *)

\* struct esdm_rpc_proto_sc_header as it lies in memory, byte by byte
sc_header(status_code, method_index, message_length, request_id) ==
    NativeStore(le_bswap32(status_code)) \o NativeStore(le_bswap32(method_index))
        \o NativeStore(le_bswap32(message_length))
        \o NativeStore(le_bswap32(request_id))

\* esdm_rpcs_pack without the protobuf_c_message_check branch: every message
\* is framed as a success
esdm_rpcs_pack_unchecked(msg_ok, packed, conn, pat_hdr, pat_data) ==
    LET hdr == sc_header(STATUS_SUCCESS, conn.method_index, Len(packed),
                         conn.request_id)
        w == esdm_rpcs_write_data(conn.child_fd, hdr, ScHeaderSize, pat_hdr)
        a == IF Len(packed) = 0
             THEN [ret |-> 0, delivered |-> <<>>]
             ELSE esdm_rpcs_write_data(conn.child_fd, packed, Len(packed),
                                       pat_data)
    IN  IF w.ret < 0
        THEN [ret |-> w.ret, hdr |-> hdr, delivered |-> w.delivered,
              write_err |-> TRUE, writes |-> <<hdr>>]
        ELSE [ret |-> 0, hdr |-> hdr,
              delivered |-> w.delivered \o a.delivered,
              write_err |-> a.ret < 0,
              writes |-> IF Len(packed) = 0 THEN <<hdr>> ELSE <<hdr, packed>>]

\* msg_ok: protobuf_c_message_check(message); packed: the serialized message;
\* pat_hdr, pat_data: results of the write() calls for header and payload
esdm_rpcs_pack(msg_ok, packed, conn, pat_hdr, pat_data) ==
    IF ~msg_ok
    THEN LET hdr == sc_header(STATUS_SERVICE_FAILED, conn.method_index, 0,
                              conn.request_id)
             w == esdm_rpcs_write_data(conn.child_fd, hdr, ScHeaderSize, pat_hdr)
         IN  [ret |-> w.ret, hdr |-> hdr, delivered |-> w.delivered,
              write_err |-> w.ret < 0, writes |-> <<hdr>>]
    ELSE LET hdr == sc_header(STATUS_SUCCESS, conn.method_index, Len(packed),
                              conn.request_id)
             w == esdm_rpcs_write_data(conn.child_fd, hdr, ScHeaderSize, pat_hdr)
             \* protobuf_c_message_pack_to_buffer -> esdm_rpcs_append_data,
             \* which drops the result of esdm_rpcs_write_data
             a == IF Len(packed) = 0
                  THEN [ret |-> 0, delivered |-> <<>>]
                  ELSE esdm_rpcs_write_data(conn.child_fd, packed, Len(packed),
                                            pat_data)
         IN  IF w.ret < 0
             THEN [ret |-> w.ret, hdr |-> hdr, delivered |-> w.delivered,
                   write_err |-> TRUE, writes |-> <<hdr>>]
             ELSE [ret |-> 0, hdr |-> hdr,
                   delivered |-> w.delivered \o a.delivered,
                   write_err |-> a.ret < 0,
                   writes |-> IF Len(packed) = 0 THEN <<hdr>>
                              ELSE <<hdr, packed>>]

----------------------------------------------------------------------------
(* The peer of the modelled connection *)

\* descriptors of the two listening sockets
PrivFd == 3
UnprivFd == 4
\* descriptor of the accepted connection in SpecConn
ConnFd == 5
\* uid of the account the server drops to
DropUid == 1000
\* pid fork() returns to the parent
ChildPid == 100
\* method index outside every service table of the model
AbsentMethod == NMethods + 3
PayloadByte == 1
ReplyByte == 7

RequestId(k) == 257 + k

\* a request as the client puts it on the wire: little-endian header, payload
ClientFrame(method_index, message_length, request_id) ==
    Bytes4LE(method_index) \o Bytes4LE(message_length) \o Bytes4LE(request_id)
        \o Repeat(PayloadByte, message_length)

FrameChoices(k) ==
    {ClientFrame(mi, L, RequestId(k)) : mi \in {1, AbsentMethod},
                                        L \in {0, MaxMsg, MaxMsg + 1}}

RECURSIVE FramesFrom(_)
FramesFrom(k) ==
    IF k > MaxFrames
    THEN {<<>>}
    ELSE {<<>>} \cup {f \o s : f \in FrameChoices(k), s \in FramesFrom(k + 1)}

HdrPatterns == {<<>>, <<4>>, <<-EPIPE>>}
DataPatterns == {<<>>, <<-EINTR>>}

----------------------------------------------------------------------------
(* esdm_rpcs_read, esdm_rpcs_unpack, esdm_rpcs_handler on one connection *)

ZeroHeader == [method_index |-> 0, message_length |-> 0, request_id |-> 0]

NoRequest ==
    [n |-> 0, raw |-> <<>>, consumed |-> 0, absent |-> FALSE,
     unpack_null |-> FALSE, reply_hdr |-> <<>>, write_err |-> FALSE, ret |-> 0,
     check_failed |-> FALSE, writes |-> <<>>, delivered |-> <<>>,
     pat_hdr |-> <<>>]

\* the header conversion without the clamp
parse_header_noclamp(b) ==
    [method_index |-> le_bswap32(NativeLoad(SubSeq(b, 1, 4))),
     message_length |-> le_bswap32(NativeLoad(SubSeq(b, 5, 8))),
     request_id |-> le_bswap32(NativeLoad(SubSeq(b, 9, 12)))]

\* the header conversion and the clamp of message_length
parse_header(b) ==
    LET ml == le_bswap32(NativeLoad(SubSeq(b, 5, 8)))
    IN  [method_index |-> le_bswap32(NativeLoad(SubSeq(b, 1, 4))),
         message_length |-> IF ml > MaxMsg THEN MaxMsg ELSE ml,
         request_id |-> le_bswap32(NativeLoad(SubSeq(b, 9, 12)))]

\* a read() that asks for the whole buffer size on every pass
read_size_whole == BufSize

\* the request size passed to read(): what is left of buf
read_size == BufSize - Len(buf)

\* a pass of the do-while loop that ends in goto out: select() timed out,
\* select() failed, read() failed, or read() returned 0 (EOF)
ReadFailures == {"timeout", "select_error", "read_error", "eof"}

NoAbort == [cause |-> "none", received |-> 0]

\* a timeout taken as transient: the loop waits again instead of goto out
read_fail_retry ==
    /\ hpc = "read"
    /\ \E f \in ReadFailures :
          /\ (f = "eof" => stream = <<>>)
          /\ read_ret' = (CASE f = "timeout" -> read_ret
                            [] f = "select_error" -> -EINTR
                            [] f = "read_error" -> -EIO
                            [] f = "eof" -> -EAGAIN)
          /\ aborted' = [cause |-> f, received |-> Len(buf)]
          /\ hpc' = IF f = "timeout" THEN "read" ELSE "close"
          /\ buf' = IF f = "timeout" THEN buf ELSE <<>>
          /\ header' = IF f = "timeout" THEN header ELSE ZeroHeader
          /\ data_to_fetch' = IF f = "timeout" THEN data_to_fetch ELSE 0
          /\ parsed' = IF f = "timeout" THEN parsed ELSE 0
          /\ resumed' = IF f = "timeout" THEN resumed ELSE FALSE
    /\ UNCHANGED <<hostBE, stream, rpc_conn, wire_out, last>>
    /\ UNCHANGED <<srv_vars, wr_vars, sup_vars, priv_vars,
                   ep_vars, cl_vars>>

read_fail ==
    /\ hpc = "read"
    /\ \E f \in ReadFailures :
          /\ (f = "eof" => stream = <<>>)
          /\ read_ret' = (CASE f = "timeout" -> -EAGAIN
                            [] f = "select_error" -> -EINTR
                            [] f = "read_error" -> -EIO
                            [] f = "eof" -> -EAGAIN)
          /\ aborted' = [cause |-> f, received |-> Len(buf)]
    /\ hpc' = "close"
    /\ buf' = <<>>                           \* memset_secure(buf, 0, total_received)
    /\ header' = ZeroHeader
    /\ data_to_fetch' = 0
    /\ parsed' = 0
    /\ resumed' = FALSE
    /\ UNCHANGED <<hostBE, stream, rpc_conn, wire_out, last>>
    /\ UNCHANGED <<srv_vars, wr_vars, sup_vars, priv_vars,
                   ep_vars, cl_vars>>

\* a loop that stops reading as soon as the header is complete
received_enough_header(total_received, dtf) == TRUE

\* if (total_received >= data_to_fetch) break
received_enough(total_received, dtf) == total_received >= dtf

\* one pass of the do-while loop in which read() returns received > 0 bytes
read_data ==
    /\ hpc = "read"
    /\ \E received \in 1..Min(Len(stream), read_size) :
          LET nbuf == buf \o SubSeq(stream, 1, received)
              total_received == Len(nbuf)
              convert == total_received >= HeaderSize /\ data_to_fetch = 0
              hdr == IF convert THEN parse_header(nbuf) ELSE header
              dtf == IF ~convert THEN data_to_fetch
                     ELSE IF hdr.message_length = 0 THEN 0
                     ELSE hdr.message_length + HeaderSize
              stop == /\ total_received >= HeaderSize
                      /\ \/ (convert /\ hdr.message_length = 0)
                         \/ received_enough(total_received, dtf)
                         \/ ~(total_received < BufSize)
          IN  /\ buf' = nbuf
              /\ stream' = SubSeq(stream, received + 1, Len(stream))
              /\ header' = hdr
              /\ data_to_fetch' = dtf
              /\ parsed' = IF convert THEN parsed + 1 ELSE parsed
              /\ resumed' = IF stop THEN resumed ELSE TRUE
              /\ hpc' = IF stop THEN "unpack" ELSE "read"
    /\ UNCHANGED <<hostBE, rpc_conn, read_ret, wire_out, last, aborted>>
    /\ UNCHANGED <<srv_vars, wr_vars, sup_vars, priv_vars,
                   ep_vars, cl_vars>>

\* esdm_rpc_proto_get_descriptor: no descriptor for this method index
descriptor_absent(method_index) == method_index >= NMethods

\* method_index and request_id stored only after service->invoke returned
unpack_conn_late(conn, hdr) == conn

\* rpc_conn as esdm_rpcs_unpack leaves it before service->invoke
unpack_conn(conn, hdr) ==
    [conn EXCEPT !.method_index = hdr.method_index,
                 !.request_id = hdr.request_id]

\* esdm_rpcs_unpack with service->invoke and esdm_rpcs_response_closure, then
\* the out: label of esdm_rpcs_read and the loop test of esdm_rpcs_handler
esdm_rpcs_unpack ==
    /\ hpc = "unpack"
    /\ \E unpack_ok \in BOOLEAN, msg_ok \in BOOLEAN, n \in {0, 2},
          pat_hdr \in HdrPatterns, pat_data \in DataPatterns :
          LET absent == descriptor_absent(header.method_index)
              failed == absent \/ ~unpack_ok
              conn == unpack_conn(rpc_conn, header)
              p == esdm_rpcs_pack(msg_ok, Repeat(ReplyByte, n), conn,
                                  pat_hdr, pat_data)
              ret == IF absent THEN -EINVAL
                     ELSE IF ~unpack_ok THEN -ENOMEM ELSE 0
          IN  /\ rpc_conn' = IF failed THEN rpc_conn ELSE conn
              /\ wire_out' = IF failed THEN wire_out ELSE wire_out \o p.delivered
              /\ last' = [n |-> last.n + 1,
                          raw |-> SubSeq(buf, 1, HeaderSize),
                          consumed |-> Len(buf),
                          absent |-> absent,
                          unpack_null |-> ~absent /\ ~unpack_ok,
                          reply_hdr |-> IF failed THEN <<>> ELSE p.hdr,
                          write_err |-> ~failed /\ p.write_err,
                          ret |-> ret,
                          check_failed |-> ~failed /\ ~msg_ok,
                          writes |-> IF failed THEN <<>> ELSE p.writes,
                          delivered |-> IF failed THEN <<>> ELSE p.delivered,
                          pat_hdr |-> IF failed THEN <<>> ELSE pat_hdr]
              /\ read_ret' = ret
              /\ hpc' = IF ret = 0 THEN "read" ELSE "close"
    /\ buf' = <<>>                           \* memset_secure(buf, 0, total_received)
    /\ header' = ZeroHeader
    /\ data_to_fetch' = 0
    /\ parsed' = 0
    /\ resumed' = FALSE
    /\ UNCHANGED <<hostBE, stream, aborted>>
    /\ UNCHANGED <<srv_vars, wr_vars, sup_vars, priv_vars,
                   ep_vars, cl_vars>>

\* esdm_rpcs_handler after its loop: close(rpc_conn->child_fd); free(rpc_conn)
handler_close ==
    /\ hpc = "close"
    /\ fd_closes' = [fd_closes EXCEPT ![rpc_conn.child_fd] = @ + 1]
    /\ fd_opens' = fd_opens
    /\ conns' = [c \in DOMAIN conns |->
                    IF conns[c].child_fd = rpc_conn.child_fd
                          /\ conns[c].st = "handler"
                    THEN [conns[c] EXCEPT !.st = "closed", !.closes = @ + 1]
                    ELSE conns[c]]
    /\ hpc' = "done"
    /\ UNCHANGED <<uid, bpc, upc, fpc, priv_proto, unpriv_proto, server_exit,
                   stop_spawning, woken, start_loc>>
    /\ UNCHANGED <<hostBE, stream, buf, data_to_fetch, header, parsed, resumed,
                   rpc_conn,
                   read_ret, wire_out, last, aborted>>
    /\ UNCHANGED <<boot_fails, bret, init_ret, wake_log>>
    /\ UNCHANGED <<wr_vars, sup_vars, priv_vars,
                   ep_vars, cl_vars>>

----------------------------------------------------------------------------
(* Initial values of the three groups of variables *)

\* descriptors of the model: 0..2 standard streams, 3 and 4 the listening
\* sockets, the rest accepted connections
Fds == 0..(4 + MaxConns)

\* the locals of esdm_rpcs_start in a thread that has not called it yet, and
\* in one that has returned from it
StartEntry == [pc |-> "entry", fd |-> -1, path |-> "absent"]
StartReturned == [pc |-> "returned", fd |-> -1, path |-> "absent"]

SrvIdle ==
    /\ uid = DropUid
    /\ bpc = "b_loop"
    /\ upc = "u_loop"
    /\ fpc = "f_idle"
    /\ priv_proto = [server_listening_fd |-> PrivFd, service |-> "priv"]
    /\ unpriv_proto = [server_listening_fd |-> UnprivFd, service |-> "unpriv"]
    /\ server_exit = 0
    /\ stop_spawning = FALSE
    /\ woken = 1
    /\ conns = <<>>
    /\ fd_closes = [fd \in Fds |-> 0]
    /\ fd_opens = [fd \in Fds |-> IF fd \in {PrivFd, UnprivFd} THEN 1 ELSE 0]
    /\ boot_fails = {}
    /\ bret = 0
    /\ init_ret = 0
    /\ wake_log = <<[by |-> "bootstrap", uid |-> DropUid,
                     priv_ready |-> TRUE, unpriv_ready |-> TRUE]>>
    /\ start_loc = [l \in {"priv", "unpriv"} |-> StartReturned]

\* the serving process after accept() of the unprivileged listener returned
\* the descriptor ConnFd and thread_start gave it to a handler thread
SrvAccepted ==
    /\ uid = DropUid
    /\ bpc = "b_loop"
    /\ upc = "u_loop"
    /\ fpc = "f_idle"
    /\ priv_proto = [server_listening_fd |-> PrivFd, service |-> "priv"]
    /\ unpriv_proto = [server_listening_fd |-> UnprivFd, service |-> "unpriv"]
    /\ server_exit = 0
    /\ stop_spawning = FALSE
    /\ woken = 1
    /\ conns = <<[ep |-> "unpriv", child_fd |-> ConnFd, closes |-> 0,
                  st |-> "handler"]>>
    /\ fd_closes = [fd \in Fds |-> 0]
    /\ fd_opens = [fd \in Fds |->
                      IF fd \in {PrivFd, UnprivFd, ConnFd} THEN 1 ELSE 0]
    /\ boot_fails = {}
    /\ bret = 0
    /\ init_ret = 0
    /\ wake_log = <<[by |-> "bootstrap", uid |-> DropUid,
                     priv_ready |-> TRUE, unpriv_ready |-> TRUE]>>
    /\ start_loc = [l \in {"priv", "unpriv"} |-> StartReturned]

ConnIdle ==
    /\ hostBE = FALSE
    /\ stream = <<>>
    /\ hpc = "done"
    /\ buf = <<>>
    /\ data_to_fetch = 0
    /\ header = ZeroHeader
    /\ parsed = 0
    /\ resumed = FALSE
    /\ rpc_conn = [child_fd |-> -1, method_index |-> 0, request_id |-> 0]
    /\ read_ret = 0
    /\ wire_out = <<>>
    /\ last = NoRequest
    /\ aborted = NoAbort

WriteIdle ==
    /\ w_data = <<>>
    /\ w_pattern = <<>>
    /\ w_result = [done |-> FALSE, ret |-> 0, delivered |-> <<>>]

\* ESDM_RPC_UNPRIV_SOCKET, ESDM_RPC_PRIV_SOCKET, the status shared-memory
\* segment and the named semaphore
Resources == {"unpriv_sock", "priv_sock", "shm", "sem"}

\* the two socket paths, in the order the server process starts them
SocketPaths == {"priv_sock", "unpriv_sock"}

\* SIGHUP, SIGINT, SIGQUIT, SIGTERM
Signals == {"SIGHUP", "SIGINT", "SIGQUIT", "SIGTERM"}

\* the parent of a running server, waiting in waitpid()
SupIdle ==
    /\ sup_pc = "s_wait"
    /\ sup_ret = 0
    /\ child = "alive"
    /\ server_pid = ChildPid
    /\ sup_k = 0
    /\ disp = [sig \in Signals |-> "relay"]
    /\ hstack = <<>>
    /\ sig_log = <<>>
    /\ cleanup_log = <<>>
    /\ fs = Resources
    /\ child_ep = [res \in SocketPaths |-> "bound"]
    /\ live_other = FALSE

PrivIdle ==
    /\ p_ret = 0
    /\ p_cred = [uid |-> 0, gid |-> 0, pid |-> 1]
    /\ p_result = [done |-> FALSE, value |-> FALSE]

\* an esdm_rpcs_start that found no path, created its socket and returned 0
StartIdle ==
    /\ e_in = [path |-> "absent", stat_ok |-> TRUE, probe_ok |-> TRUE,
               connect |-> "ECONNREFUSED", unlink_ok |-> TRUE,
               socket_ok |-> TRUE, bind_ok |-> TRUE, listen_ok |-> TRUE]
    /\ e_pc = "e_done"
    /\ e_path = "socket"
    /\ e_unlinks = 0
    /\ e_closes = 0
    /\ e_ret = 0

\* no client call in progress
ClientIdle ==
    /\ cl_in = [get_ok |-> TRUE, callback |-> TRUE, check |-> "pass",
                resp_ret |-> 0,
                resp_seeded |-> TRUE, stack |-> FALSE, ptr |-> TRUE,
                before |-> FALSE]
    /\ cl_pc = "c_returned"
    /\ cl_buffer = [ret |-> 0, fully_seeded |-> TRUE]
    /\ cl_ret = 0
    /\ cl_out = [written |-> TRUE, value |-> TRUE]

\* a connection just accepted by esdm_rpcs_workerloop whose handler thread
\* starts its first esdm_rpcs_read
InitConn ==
    /\ StartIdle
    /\ ClientIdle
    /\ SrvAccepted
    /\ WriteIdle
    /\ SupIdle
    /\ PrivIdle
    /\ hostBE \in BOOLEAN
    /\ stream \in FramesFrom(1)
    /\ hpc = "read"
    /\ buf = <<>>
    /\ data_to_fetch = 0
    /\ header = ZeroHeader
    /\ parsed = 0
    /\ resumed = FALSE
    /\ rpc_conn = [child_fd |-> ConnFd, method_index |-> 0, request_id |-> 0]
    /\ read_ret = 0
    /\ wire_out = <<>>
    /\ last = NoRequest
    /\ aborted = NoAbort

NextConn == read_fail \/ read_data \/ esdm_rpcs_unpack \/ handler_close

SpecConn == InitConn /\ [][NextConn]_vars

\* the handler thread keeps running: once esdm_rpcs_read has returned an error
\* nothing blocks between the loop test and close()
SpecConnLive == SpecConn /\ WF_vars(handler_close)

----------------------------------------------------------------------------
(* esdm_rpcs_write_data on its own *)

WriteData ==
    UNION {[1..n -> {1, 2}] : n \in 0..MaxWriteLen}

\* results of write(fd, data, len): -errno, or a count in 1..len (0 for len 0)
WriteResults(len) == {-EIO} \cup (IF len = 0 THEN {0} ELSE 1..len)

WritePatterns(len) ==
    UNION {[1..n -> WriteResults(len)] : n \in 0..MaxWriteCalls}

InitWrite ==
    /\ StartIdle
    /\ ClientIdle
    /\ SrvIdle
    /\ ConnIdle
    /\ SupIdle
    /\ PrivIdle
    /\ w_data \in WriteData
    /\ w_pattern \in WritePatterns(Len(w_data))
    /\ w_result = [done |-> FALSE, ret |-> 0, delivered |-> <<>>]

write_call ==
    /\ ~w_result.done
    /\ LET w == esdm_rpcs_write_data(ConnFd, w_data, Len(w_data), w_pattern)
       IN  w_result' = [done |-> TRUE, ret |-> w.ret, delivered |-> w.delivered]
    /\ UNCHANGED <<w_data, w_pattern>>
    /\ UNCHANGED <<srv_vars, conn_vars, sup_vars, priv_vars,
                   ep_vars, cl_vars>>

NextWrite == write_call

SpecWrite == InitWrite /\ [][NextWrite]_vars

\* ======================================================================
\* esdm_rpc_client_is_privileged on its own
\* ======================================================================

\* largest uid, gid and pid value the peer credentials are drawn from
MaxId == 3

\* struct ucred values: what getsockopt stored, or, when it failed, whatever
\* the uninitialised stack variable holds
Creds == [uid : 0..MaxId, gid : 0..MaxId, pid : 1..MaxId]

\* a check that looks at cred without testing the result of getsockopt
esdm_rpc_client_is_privileged_unchecked(ret, cred) == cred.uid = 0

\* esdm_rpc_client_is_privileged: false when getsockopt failed, else uid == 0
esdm_rpc_client_is_privileged(ret, cred) ==
    IF ret < 0 THEN FALSE ELSE cred.uid = 0

InitPriv ==
    /\ StartIdle
    /\ ClientIdle
    /\ SrvIdle
    /\ ConnIdle
    /\ WriteIdle
    /\ SupIdle
    /\ p_ret \in {0, -1}
    /\ p_cred \in Creds
    /\ p_result = [done |-> FALSE, value |-> FALSE]

priv_call ==
    /\ ~p_result.done
    /\ p_result' = [done |-> TRUE,
                    value |-> esdm_rpc_client_is_privileged(p_ret, p_cred)]
    /\ UNCHANGED <<p_ret, p_cred>>
    /\ UNCHANGED <<srv_vars, conn_vars, wr_vars, sup_vars,
                   ep_vars, cl_vars>>

NextPriv == priv_call

SpecPriv == InitPriv /\ [][NextPriv]_vars

\* C20: the call returns true exactly when getsockopt succeeded and the uid
\* of the peer is 0; it returns false whenever getsockopt failed
C20_PrivilegedIffRoot ==
    p_result.done =>
        /\ p_result.value = (p_ret >= 0 /\ p_cred.uid = 0)
        /\ (p_ret < 0 => p_result.value = FALSE)

\* the lookup failed while the uninitialised cred happens to hold uid 0,
\* and the call has returned
C20_Witness ==
    /\ p_result.done
    /\ p_ret < 0
    /\ p_cred.uid = 0
    /\ ~p_result.value

\* ======================================================================
\* esdm_rpcs_start on a Unix domain socket path, with esdm_rpcs_stale_socket
\* ======================================================================

\* what can be found at the path: nothing, a file that is no socket, a socket
PathKinds == {"absent", "file", "socket"}

\* results of the non-blocking connect() of the probe
ConnectResults == {"ok", "EINPROGRESS", "ECONNREFUSED", "EAGAIN"}

StartInputs ==
    [path : PathKinds, stat_ok : BOOLEAN, probe_ok : BOOLEAN,
     connect : ConnectResults, unlink_ok : BOOLEAN, socket_ok : BOOLEAN,
     bind_ok : BOOLEAN, listen_ok : BOOLEAN]

\* a probe that takes every socket for stale
connect_live_never(c) == FALSE

\* connect() returned 0, or -1 with errno EINPROGRESS: a listener is live
connect_live(c) == c \in {"ok", "EINPROGRESS"}

\* esdm_rpcs_stale_socket: whether unlink(path) is called, what is at the
\* path afterwards, and whether the probe socket was opened and closed
esdm_rpcs_stale_socket(path, in) ==
    IF path = "absent" \/ ~in.stat_ok
    THEN [unlinks |-> 0, closes |-> 0, path |-> path]      \* stat() < 0
    ELSE IF path # "socket"
    THEN [unlinks |-> 0, closes |-> 0, path |-> path]      \* !S_ISSOCK
    ELSE IF ~in.probe_ok
    THEN [unlinks |-> 0, closes |-> 0, path |-> path]      \* socket() < 0
    ELSE IF connect_live(in.connect)
    THEN [unlinks |-> 0, closes |-> 1, path |-> path]
    ELSE [unlinks |-> 1, closes |-> 1,
          path |-> IF in.unlink_ok THEN "absent" ELSE path]

\* how the socket(), bind(), listen() part of esdm_rpcs_start ends with the
\* given content of the path: all three succeeded, or the named one failed;
\* bind fails on a path that exists
start_outcome(path, in) ==
    IF ~in.socket_ok THEN "socket"
    ELSE IF ~(in.bind_ok /\ path = "absent") THEN "bind"
    ELSE IF ~in.listen_ok THEN "listen"
    ELSE "ok"

\* esdm_rpcs_start closes the socket it created when bind or listen fails:
\* the number of close() calls of that part
start_closes(outcome) ==
    IF outcome \in {"bind", "listen"} THEN 1 ELSE 0

InitStart ==
    /\ SrvIdle
    /\ ConnIdle
    /\ WriteIdle
    /\ SupIdle
    /\ PrivIdle
    /\ ClientIdle
    /\ e_in \in StartInputs
    /\ e_pc = "e_stale"
    /\ e_path = e_in.path
    /\ e_unlinks = 0
    /\ e_closes = 0
    /\ e_ret = 0

\* the unix_socket branch of esdm_rpcs_start up to and including
\* esdm_rpcs_stale_socket(unix_socket, address, address_len)
stale_check ==
    /\ e_pc = "e_stale"
    /\ e_path' = esdm_rpcs_stale_socket(e_path, e_in).path
    /\ e_unlinks' = e_unlinks + esdm_rpcs_stale_socket(e_path, e_in).unlinks
    /\ e_closes' = e_closes + esdm_rpcs_stale_socket(e_path, e_in).closes
    /\ e_pc' = "e_listen"
    /\ UNCHANGED <<e_in, e_ret>>
    /\ UNCHANGED <<srv_vars, conn_vars, wr_vars, sup_vars, priv_vars, cl_vars>>

\* socket(), bind(), listen(): bind fails on a path that exists; each failing
\* call returns -errno, after close(fd) when the socket had been created
start_listen ==
    /\ e_pc = "e_listen"
    /\ LET outcome == start_outcome(e_path, e_in)
       IN  /\ e_path' = IF outcome \in {"ok", "listen"} THEN "socket"
                        ELSE e_path
           /\ e_closes' = e_closes + start_closes(outcome)
           /\ e_ret' = IF outcome = "ok" THEN 0 ELSE -EIO
    /\ e_pc' = "e_done"
    /\ UNCHANGED <<e_in, e_unlinks>>
    /\ UNCHANGED <<srv_vars, conn_vars, wr_vars, sup_vars, priv_vars, cl_vars>>

NextStart == stale_check \/ start_listen

SpecStart == InitStart /\ [][NextStart]_vars

\* the probe was made: the path is a socket, stat() and socket() succeeded
probed == e_in.path = "socket" /\ e_in.stat_ok /\ e_in.probe_ok

\* C24: when the probe's connect succeeds or is in progress the path is not
\* unlinked and esdm_rpcs_start fails; when it fails otherwise the path is
\* unlinked once, and with the unlink and the calls of the listener
\* succeeding esdm_rpcs_start returns 0 with its socket bound at the path;
\* a path that does not exist or is no socket is never unlinked
C24_StaleSocketOnly ==
    /\ (probed /\ e_in.connect \in {"ok", "EINPROGRESS"}) =>
           /\ e_unlinks = 0
           /\ e_path = "socket"
           /\ e_pc = "e_done" => e_ret < 0
    /\ (probed /\ e_in.connect \in {"ECONNREFUSED", "EAGAIN"}
           /\ e_pc # "e_stale") =>
           /\ e_unlinks = 1
           /\ (e_in.unlink_ok /\ e_pc = "e_listen") => e_path = "absent"
           /\ (e_pc = "e_done" /\ e_in.unlink_ok /\ e_in.socket_ok
                 /\ e_in.bind_ok /\ e_in.listen_ok) =>
                 (e_ret = 0 /\ e_path = "socket")
    /\ e_in.path # "socket" => e_unlinks = 0
    /\ e_in.path = "file" => e_path = "file"

\* a stale socket was probed, unlinked and replaced by the new listener
C24_Witness ==
    /\ e_pc = "e_done"
    /\ probed
    /\ e_in.connect = "ECONNREFUSED"
    /\ e_unlinks = 1
    /\ e_ret = 0
    /\ e_path = "socket"

\* ======================================================================
\* The client call esdm_rpcc_is_fully_seeded_int
\* ======================================================================

\* a run of the call: whether the service is acquired, whether the RPC
\* invokes the callback and with which response, what the stack slot of
\* buffer.fully_seeded holds on entry, whether the caller passed a pointer,
\* and the caller's value before the call
ClientInputs ==
    [get_ok : BOOLEAN, callback : BOOLEAN, check : {"pass", "keep", "error"},
     resp_ret : {0, -EINVAL}, resp_seeded : BOOLEAN, stack : BOOLEAN,
     ptr : BOOLEAN, before : BOOLEAN]

\* esdm_rpcc_error_check(response, buffer): the response is accepted, or it
\* is refused and the callback returns at once, with buffer as it is or
\* with an error in buffer->ret
esdm_rpcc_error_check(check, buffer) ==
    CASE check = "pass" -> [returns |-> FALSE, buffer |-> buffer]
      [] check = "keep" -> [returns |-> TRUE, buffer |-> buffer]
      [] check = "error" ->
            [returns |-> TRUE, buffer |-> [buffer EXCEPT !.ret = -EINVAL]]

\* esdm_rpcc_is_fully_seeded_cb: after the check both fields of the response
\* are copied
esdm_rpcc_is_fully_seeded_cb(response, buffer) ==
    LET c == esdm_rpcc_error_check(response.check, buffer) IN
    IF c.returns THEN c.buffer
    ELSE [ret |-> response.ret, fully_seeded |-> response.fully_seeded]

InitClient ==
    /\ SrvIdle
    /\ ConnIdle
    /\ WriteIdle
    /\ SupIdle
    /\ PrivIdle
    /\ StartIdle
    /\ cl_in \in ClientInputs
    /\ cl_pc = "c_start"
    /\ cl_buffer = [ret |-> 0, fully_seeded |-> cl_in.stack]
    /\ cl_ret = 0
    /\ cl_out = [written |-> FALSE, value |-> cl_in.before]

\* CKINT(esdm_rpcc_get_unpriv_service(&rpc_conn, int_data))
cl_get_service ==
    /\ cl_pc = "c_start"
    /\ cl_ret' = IF cl_in.get_ok THEN 0 ELSE -EAGAIN
    /\ cl_pc' = IF cl_in.get_ok THEN "c_invoke" ELSE "c_out"
    /\ UNCHANGED <<cl_in, cl_buffer, cl_out>>
    /\ UNCHANGED <<srv_vars, conn_vars, wr_vars, sup_vars, priv_vars, ep_vars>>

\* buffer.ret = -ETIMEDOUT; unpriv_access__rpc_is_fully_seeded(...), which
\* invokes the callback or returns without it
cl_invoke ==
    /\ cl_pc = "c_invoke"
    /\ LET armed == [cl_buffer EXCEPT !.ret = -ETIMEDOUT]
       IN  cl_buffer' =
               IF cl_in.callback
               THEN esdm_rpcc_is_fully_seeded_cb(
                        [check |-> cl_in.check, ret |-> cl_in.resp_ret,
                         fully_seeded |-> cl_in.resp_seeded], armed)
               ELSE armed
    /\ cl_pc' = "c_copy"
    /\ UNCHANGED <<cl_in, cl_ret, cl_out>>
    /\ UNCHANGED <<srv_vars, conn_vars, wr_vars, sup_vars, priv_vars, ep_vars>>

\* ret = buffer.ret; if (fully_seeded) *fully_seeded = buffer.fully_seeded
cl_copy ==
    /\ cl_pc = "c_copy"
    /\ cl_ret' = cl_buffer.ret
    /\ cl_out' = IF cl_in.ptr
                 THEN [written |-> TRUE, value |-> cl_buffer.fully_seeded]
                 ELSE cl_out
    /\ cl_pc' = "c_out"
    /\ UNCHANGED <<cl_in, cl_buffer>>
    /\ UNCHANGED <<srv_vars, conn_vars, wr_vars, sup_vars, priv_vars, ep_vars>>

\* out: esdm_rpcc_put_unpriv_service(rpc_conn); return ret
cl_return ==
    /\ cl_pc = "c_out"
    /\ cl_pc' = "c_returned"
    /\ UNCHANGED <<cl_in, cl_buffer, cl_ret, cl_out>>
    /\ UNCHANGED <<srv_vars, conn_vars, wr_vars, sup_vars, priv_vars, ep_vars>>

NextClient == cl_get_service \/ cl_invoke \/ cl_copy \/ cl_return

SpecClient == InitClient /\ [][NextClient]_vars

\* C27: when the call has returned, a written *fully_seeded follows a
\* callback and holds the fully_seeded field of the response whenever the
\* callback accepted the response; without the
\* callback the call returns -ETIMEDOUT and *fully_seeded is not written;
\* when the service is not acquired the error is returned and *fully_seeded
\* keeps the caller's value
C27_SeededFromResponse ==
    cl_pc = "c_returned" =>
        /\ cl_out.written =>
              (cl_in.get_ok /\ cl_in.callback
                 /\ (cl_in.check = "pass" => cl_out.value = cl_in.resp_seeded))
        /\ (cl_in.get_ok /\ ~cl_in.callback) =>
              (cl_ret = -ETIMEDOUT /\ ~cl_out.written)
        /\ ~cl_in.get_ok =>
              (cl_ret < 0
                 /\ cl_out = [written |-> FALSE, value |-> cl_in.before])

\* ======================================================================
\* The supervisor: the parent branch of esdm_rpc_server_init
\* ======================================================================

\* signals delivered to the parent in one run
MaxSignals == 3

\* the order in which esdm_rpcs_cleanup_signals calls signal()
SigOrder == <<"SIGHUP", "SIGINT", "SIGQUIT", "SIGTERM">>

\* esdm_rpcs_cleanup_signals(sighandler): its k-th signal() call replaces
\* the disposition of one signal
esdm_rpcs_cleanup_signals(d, k, sighandler) ==
    [d EXCEPT ![SigOrder[k]] = sighandler]

\* the results the calls of esdm_rpcs_cleanup can have: removing what does
\* not exist fails, removing what exists may fail as well
CleanupResults ==
    {r \in [unlink_unpriv : BOOLEAN, unlink_priv : BOOLEAN, shmget : BOOLEAN,
            shmctl : BOOLEAN, sem_unlink : BOOLEAN] :
        /\ r.unlink_unpriv => "unpriv_sock" \in fs
        /\ r.unlink_priv => "priv_sock" \in fs
        /\ r.shmget => "shm" \in fs
        /\ r.shmctl => r.shmget
        /\ r.sem_unlink => "sem" \in fs}

\* a cleanup that gives up at the first step that fails
esdm_rpcs_cleanup_abort(r) ==
    IF ~r.unlink_unpriv THEN <<"unlink_unpriv">>
    ELSE IF ~r.unlink_priv THEN <<"unlink_unpriv", "unlink_priv">>
    ELSE IF ~r.shmget THEN <<"unlink_unpriv", "unlink_priv", "shmget">>
    ELSE IF ~r.shmctl
         THEN <<"unlink_unpriv", "unlink_priv", "shmget", "shmctl">>
    ELSE <<"unlink_unpriv", "unlink_priv", "shmget", "shmctl", "sem_unlink">>

\* esdm_rpcs_cleanup: the steps attempted, in order, for each combination
\* of results; shmctl(IPC_RMID) is attempted only when shmget succeeded
esdm_rpcs_cleanup(r) ==
    <<"unlink_unpriv", "unlink_priv", "shmget">>
        \o (IF r.shmget THEN <<"shmctl">> ELSE <<>>)
        \o <<"sem_unlink">>

\* the step that removes each resource
removal_step(res) ==
    CASE res = "unpriv_sock" -> "unlink_unpriv"
      [] res = "priv_sock" -> "unlink_priv"
      [] res = "shm" -> "shmctl"
      [] res = "sem" -> "sem_unlink"

\* the resources that are gone after the steps were attempted with results r
removed(steps, r) ==
    {res \in Resources :
        /\ \E i \in DOMAIN steps : steps[i] = removal_step(res)
        /\ r[removal_step(res)]}

sup_running == sup_pc \notin {"s_ret", "s_exit", "s_killed"}

\* the parent's own code runs only while no signal handler is running
sup_main == sup_running /\ hstack = <<>>

\* the signals whose handler is running: signal() installs the handler so
\* that its signal stays blocked until the handler returns
HandlerSignals == {sig_log[hstack[i].idx].sig : i \in DOMAIN hstack}

\* an esdm_rpcs_cleanup call is under way: it has not made all its calls yet
cleanup_open ==
    /\ cleanup_log # <<>>
    /\ LET e == cleanup_log[Len(cleanup_log)] IN
       e.steps # esdm_rpcs_cleanup(e.results)

InitSup ==
    /\ StartIdle
    /\ ClientIdle
    /\ SrvIdle
    /\ ConnIdle
    /\ WriteIdle
    /\ PrivIdle
    /\ sup_pc = "s_start"
    /\ sup_ret = 0
    /\ child = "none"
    /\ server_pid = -1
    /\ sup_k = 0
    /\ disp = [sig \in Signals |-> "default"]
    /\ hstack = <<>>
    /\ sig_log = <<>>
    /\ cleanup_log = <<>>
    /\ live_other \in BOOLEAN
    /\ fs \in IF live_other THEN {Resources} ELSE SUBSET Resources
    /\ child_ep = [res \in SocketPaths |-> "todo"]

\* CKINT(thread_init(1))
sup_thread_init ==
    /\ sup_pc = "s_start"
    /\ sup_main
    /\ \E ok \in BOOLEAN :
          /\ sup_pc' = IF ok THEN "s_fork" ELSE "s_ret"
          /\ sup_ret' = IF ok THEN 0 ELSE -ENOMEM
    /\ UNCHANGED <<child, server_pid, sup_k, disp, hstack, sig_log,
                   cleanup_log, fs, child_ep, live_other>>
    /\ UNCHANGED <<srv_vars, conn_vars, wr_vars, priv_vars,
                   ep_vars, cl_vars>>

\* pid = fork(): a failure ends the process with exit(1)
sup_fork ==
    /\ sup_pc = "s_fork"
    /\ sup_main
    /\ \E ok \in BOOLEAN :
          /\ sup_pc' = IF ok THEN "s_set_pid" ELSE "s_exit"
          /\ child' = IF ok THEN "alive" ELSE child
    /\ UNCHANGED <<sup_ret, server_pid, sup_k, disp, hstack, sig_log,
                   cleanup_log, fs, child_ep, live_other>>
    /\ UNCHANGED <<srv_vars, conn_vars, wr_vars, priv_vars,
                   ep_vars, cl_vars>>

\* server_pid = pid
sup_set_pid ==
    /\ sup_pc = "s_set_pid"
    /\ sup_main
    /\ server_pid' = ChildPid
    /\ sup_pc' = "s_install"
    /\ UNCHANGED <<sup_ret, child, sup_k, disp, hstack, sig_log, cleanup_log,
                   fs, child_ep, live_other>>
    /\ UNCHANGED <<srv_vars, conn_vars, wr_vars, priv_vars,
                   ep_vars, cl_vars>>

\* esdm_rpcs_cleanup_signals(esdm_rpcs_cleanup_term): one signal() call
sup_install ==
    /\ sup_pc = "s_install"
    /\ sup_main
    /\ disp' = esdm_rpcs_cleanup_signals(disp, sup_k + 1, "relay")
    /\ sup_k' = IF sup_k + 1 = Len(SigOrder) THEN 0 ELSE sup_k + 1
    /\ sup_pc' = IF sup_k + 1 = Len(SigOrder) THEN "s_wait" ELSE sup_pc
    /\ UNCHANGED <<sup_ret, child, server_pid, hstack, sig_log, cleanup_log,
                   fs, child_ep, live_other>>
    /\ UNCHANGED <<srv_vars, conn_vars, wr_vars, priv_vars,
                   ep_vars, cl_vars>>

\* waitpid(pid, NULL, 0) returns once the child has ended; server_pid = -1
sup_waitpid ==
    /\ sup_pc = "s_wait"
    /\ sup_main
    /\ child = "exited"
    /\ server_pid' = -1
    /\ sup_pc' = "s_restore"
    /\ UNCHANGED <<sup_ret, child, sup_k, disp, hstack, sig_log, cleanup_log,
                   fs, child_ep, live_other>>
    /\ UNCHANGED <<srv_vars, conn_vars, wr_vars, priv_vars,
                   ep_vars, cl_vars>>

\* esdm_rpcs_cleanup_signals(SIG_DFL): one signal() call
sup_restore ==
    /\ sup_pc = "s_restore"
    /\ sup_main
    /\ disp' = esdm_rpcs_cleanup_signals(disp, sup_k + 1, "default")
    /\ sup_k' = IF sup_k + 1 = Len(SigOrder) THEN 0 ELSE sup_k + 1
    /\ sup_pc' = IF sup_k + 1 = Len(SigOrder) THEN "s_cleanup" ELSE sup_pc
    /\ UNCHANGED <<sup_ret, child, server_pid, hstack, sig_log, cleanup_log,
                   fs, child_ep, live_other>>
    /\ UNCHANGED <<srv_vars, conn_vars, wr_vars, priv_vars,
                   ep_vars, cl_vars>>

\* esdm_rpcs_cleanup(): one of its calls; after the last one, return ret
sup_cleanup ==
    /\ sup_pc = "s_cleanup"
    /\ sup_main
    /\ \E r \in (IF cleanup_open THEN {cleanup_log[Len(cleanup_log)].results}
                 ELSE CleanupResults) :
          LET done == IF cleanup_open THEN cleanup_log[Len(cleanup_log)].steps
                      ELSE <<>>
              step == esdm_rpcs_cleanup(r)[Len(done) + 1]
              e    == [by |-> "supervisor", child |-> child, results |-> r,
                       steps |-> Append(done, step)]
          IN
          /\ cleanup_log' = IF cleanup_open
                            THEN [cleanup_log EXCEPT ![Len(cleanup_log)] = e]
                            ELSE Append(cleanup_log, e)
          /\ fs' = fs \ removed(<<step>>, r)
          /\ sup_pc' = IF e.steps = esdm_rpcs_cleanup(r) THEN "s_ret"
                       ELSE sup_pc
    /\ UNCHANGED <<sup_ret, child, server_pid, sup_k, disp, hstack, sig_log,
                   child_ep, live_other>>
    /\ UNCHANGED <<srv_vars, conn_vars, wr_vars, priv_vars,
                   ep_vars, cl_vars>>

\* the unprivileged endpoint is started by a thread that exists only once
\* the privileged endpoint listens
child_started(res) ==
    res = "unpriv_sock" => child_ep["priv_sock"] = "bound"

\* the server process removes a socket path: esdm_rpcs_stale_socket, called
\* by esdm_rpcs_start, unlinks a socket whose connect() fails with an errno
\* other than EINPROGRESS, be it stale or the socket of a live instance
\* that does not take the connection (EAGAIN)
child_unlink(res) ==
    /\ child = "alive"
    /\ res \in SocketPaths \cap fs
    /\ child_ep[res] = "todo"
    /\ child_started(res)
    /\ fs' = fs \ {res}
    /\ child_ep' = [child_ep EXCEPT ![res] = "probed"]
    /\ UNCHANGED <<sup_pc, sup_ret, child, server_pid, sup_k, disp, hstack,
                   sig_log, cleanup_log, live_other>>
    /\ UNCHANGED <<srv_vars, conn_vars, wr_vars, priv_vars,
                   ep_vars, cl_vars>>

\* the server process creates a socket path (bind in esdm_rpcs_start); bind
\* fails on a path that exists, as do both paths of a live instance unless
\* esdm_rpcs_stale_socket removed them
child_bind(res) ==
    /\ child = "alive"
    /\ res \in SocketPaths \ fs
    /\ child_ep[res] \in {"todo", "probed"}
    /\ child_started(res)
    /\ fs' = fs \cup {res}
    /\ child_ep' = [child_ep EXCEPT ![res] = "bound"]
    /\ UNCHANGED <<sup_pc, sup_ret, child, server_pid, sup_k, disp, hstack,
                   sig_log, cleanup_log, live_other>>
    /\ UNCHANGED <<srv_vars, conn_vars, wr_vars, priv_vars,
                   ep_vars, cl_vars>>

\* the server process ends, by itself or by a signal
child_exit ==
    /\ child = "alive"
    /\ child' = "exited"
    /\ UNCHANGED <<sup_pc, sup_ret, server_pid, sup_k, disp, hstack, sig_log,
                   cleanup_log, fs, child_ep, live_other>>
    /\ UNCHANGED <<srv_vars, conn_vars, wr_vars, priv_vars,
                   ep_vars, cl_vars>>

\* a signal is delivered to the parent, at any point of its code and of a
\* running handler of another signal: with the handler installed a call of
\* esdm_rpcs_cleanup_term starts; with SIG_DFL the parent is terminated
deliver_signal(sig) ==
    /\ sup_running
    /\ Len(sig_log) < MaxSignals
    /\ sig \notin HandlerSignals
    /\ sig_log' = Append(sig_log,
                         [sig |-> sig,
                          waiting |-> (sup_pc = "s_wait" /\ child = "alive"),
                          relayed |-> FALSE,
                          fatal |-> (disp[sig] = "default")])
    /\ hstack' = IF disp[sig] = "relay"
                 THEN Append(hstack, [idx |-> Len(sig_log) + 1, k |-> 0])
                 ELSE hstack
    /\ sup_pc' = IF disp[sig] = "default" THEN "s_killed" ELSE sup_pc
    /\ UNCHANGED <<sup_ret, child, server_pid, sup_k, disp, cleanup_log, fs,
                   child_ep, live_other>>
    /\ UNCHANGED <<srv_vars, conn_vars, wr_vars, priv_vars,
                   ep_vars, cl_vars>>

\* esdm_rpcs_cleanup_term: esdm_rpcs_cleanup_signals(SIG_DFL), one signal()
\* call of the innermost running handler
esdm_rpcs_cleanup_term_reset ==
    /\ sup_running
    /\ hstack # <<>>
    /\ LET top == hstack[Len(hstack)] IN
       /\ top.k < Len(SigOrder)
       /\ disp' = esdm_rpcs_cleanup_signals(disp, top.k + 1, "default")
       /\ hstack' = [hstack EXCEPT ![Len(hstack)].k = top.k + 1]
    /\ UNCHANGED <<sup_pc, sup_ret, child, server_pid, sup_k, sig_log,
                   cleanup_log, fs, child_ep, live_other>>
    /\ UNCHANGED <<srv_vars, conn_vars, wr_vars, priv_vars,
                   ep_vars, cl_vars>>

\* esdm_rpcs_cleanup_term: if (server_pid > 0) kill(server_pid, sig), and
\* the handler returns
esdm_rpcs_cleanup_term_kill ==
    /\ sup_running
    /\ hstack # <<>>
    /\ LET top == hstack[Len(hstack)] IN
       /\ top.k = Len(SigOrder)
       /\ sig_log' = [sig_log EXCEPT ![top.idx].relayed = (server_pid > 0)]
       /\ hstack' = SubSeq(hstack, 1, Len(hstack) - 1)
    /\ UNCHANGED <<sup_pc, sup_ret, child, server_pid, sup_k, disp,
                   cleanup_log, fs, child_ep, live_other>>
    /\ UNCHANGED <<srv_vars, conn_vars, wr_vars, priv_vars,
                   ep_vars, cl_vars>>

NextSup ==
    \/ sup_thread_init
    \/ sup_fork
    \/ sup_set_pid
    \/ sup_install
    \/ sup_waitpid
    \/ sup_restore
    \/ sup_cleanup
    \/ child_exit
    \/ \E res \in SocketPaths : child_unlink(res)
    \/ \E res \in SocketPaths : child_bind(res)
    \/ \E sig \in Signals : deliver_signal(sig)
    \/ esdm_rpcs_cleanup_term_reset
    \/ esdm_rpcs_cleanup_term_kill

SpecSup == InitSup /\ [][NextSup]_vars

\* every signal of the run reached the parent while it waited for the live
\* child with its handlers installed
signals_while_waiting == \A i \in DOMAIN sig_log : sig_log[i].waiting

\* C13: in every run of esdm_rpc_server_init that forked, esdm_rpcs_cleanup
\* runs at most once, only in the parent and only after the child has
\* exited; and when the parent has ended, having received signals only
\* while it waited for the live child, it has run exactly once
C13_CleanupExactlyOnce ==
    /\ Len(cleanup_log) <= 1
    /\ \A i \in DOMAIN cleanup_log :
          cleanup_log[i].by = "supervisor" /\ cleanup_log[i].child = "exited"
    /\ (sup_pc \in {"s_ret", "s_killed"} /\ child # "none"
           /\ signals_while_waiting)
          => (Len(cleanup_log) = 1 /\ ~cleanup_open)

\* C21: every run of esdm_rpcs_cleanup attempts unlink of the unprivileged
\* socket, unlink of the privileged socket, the shared-memory lookup, the
\* removal of the segment exactly when the lookup succeeded, and sem_unlink,
\* in that order, whatever the results of the steps: a run that is under
\* way has attempted a prefix of that list, a run that has returned all of it
C21_CleanupBestEffort ==
    \A i \in DOMAIN cleanup_log :
        LET e == cleanup_log[i]
            n == Len(e.steps)
            sem == IF e.results.shmget THEN 5 ELSE 4
        IN
        /\ n <= sem
        /\ (i < Len(cleanup_log) \/ sup_pc = "s_ret") => n = sem
        /\ n >= 1 => e.steps[1] = "unlink_unpriv"
        /\ n >= 2 => e.steps[2] = "unlink_priv"
        /\ n >= 3 => e.steps[3] = "shmget"
        /\ (n >= 4 /\ e.results.shmget) => e.steps[4] = "shmctl"
        /\ n = sem => e.steps[sem] = "sem_unlink"

\* a cleanup has run in which the first unlink and the shared-memory lookup
\* failed while the semaphore was removed
C21_Witness ==
    \E i \in DOMAIN cleanup_log :
        /\ ~cleanup_log[i].results.unlink_unpriv
        /\ ~cleanup_log[i].results.shmget
        /\ cleanup_log[i].results.sem_unlink
        /\ "sem" \notin fs
        /\ sup_pc = "s_ret"

\* C25: while another instance is live on both endpoints, a run of
\* esdm_rpc_server_init whose child found the endpoints live (it removed no
\* path and bound none) leaves the socket paths, the shared-memory segment
\* and the semaphore in place
C25_LiveInstanceKept ==
    (live_other /\ \A res \in SocketPaths : child_ep[res] = "todo")
        => fs = Resources

\* C14: every signal delivered to the parent while it waits for the live
\* child does not terminate the parent and, once its handler has returned,
\* has been relayed to the child
C14_SignalsRelayed ==
    \A i \in DOMAIN sig_log :
        sig_log[i].waiting =>
            /\ ~sig_log[i].fatal
            /\ sig_log[i].relayed \/ \E f \in DOMAIN hstack : hstack[f].idx = i

----------------------------------------------------------------------------
(* The server process: bootstrap, unprivileged listener, fini, accept loops *)

NoProto(fd) == [server_listening_fd |-> fd, service |-> "null"]

\* esdm_rpcs_start: proto is filled only after socket, bind and listen succeeded
esdm_rpcs_start(proto, fd, service, ok) ==
    IF ok THEN [server_listening_fd |-> fd, service |-> service] ELSE proto

\* the standard streams, open when the server process starts
StdFds == 0..2

\* the descriptor number is in use: it was open from the start or returned
\* by socket() or accept(), and not closed since
fd_is_open(fd) ==
    (IF fd \in StdFds THEN 1 ELSE 0) + fd_opens[fd] > fd_closes[fd]

\* socket() and accept() return the lowest descriptor number not in use
lowest_free ==
    CHOOSE fd \in Fds :
        /\ ~fd_is_open(fd)
        /\ \A g \in Fds : g < fd => fd_is_open(g)

\* eesdm_rpcs_stop: the descriptor it closes, or -1 when it closes none
stop_closes(proto) ==
    IF proto.server_listening_fd >= 0 THEN proto.server_listening_fd ELSE -1

eesdm_rpcs_stop(proto) == [proto EXCEPT !.server_listening_fd = -1]

closes_after(fd) ==
    IF fd >= 0 THEN [fd_closes EXCEPT ![fd] = @ + 1] ELSE fd_closes

\* a wait that also ends once esdm_rpc_server_fini has set server_exit
wait_condition_or_exit == uid # 0 \/ server_exit = 1

\* the condition of thread_wait_event(&esdm_rpc_thread_init_wait, getuid())
wait_condition == uid # 0

\* thread_wake_all: every thread blocked on esdm_rpc_thread_init_wait runs
\* again and re-evaluates its condition
thread_wake_all(pc) == IF pc = "u_blocked" THEN "u_wait" ELSE pc

\* thread_start refuses new threads once thread_stop_spawning() was called
thread_start_ok(ok) == ok /\ ~stop_spawning

\* ---- esdm_rpcs_interfaces_init, step by step ----

\* esdm_rpcs_start is called by the bootstrap (line 606) and by the
\* unprivileged listener thread (line 549); each system call of it and of
\* esdm_rpcs_stale_socket is a step of the calling thread
in_start(l) ==
    /\ IF l = "priv" THEN bpc = "b_start" ELSE upc = "u_start"
    /\ start_loc[l].pc # "returned"

\* return from esdm_rpcs_start into CKINT: on success proto holds the
\* descriptor and the service, on failure the caller goes to out
start_return(l, fd, ok) ==
    /\ start_loc' = [start_loc EXCEPT ![l] = StartReturned]
    /\ priv_proto' = IF l = "priv"
                     THEN esdm_rpcs_start(priv_proto, fd, "priv", ok)
                     ELSE priv_proto
    /\ unpriv_proto' = IF l = "unpriv"
                       THEN esdm_rpcs_start(unpriv_proto, fd, "unpriv", ok)
                       ELSE unpriv_proto
    /\ bpc' = IF l # "priv" THEN bpc ELSE IF ok THEN "b_chmod" ELSE "b_out"
    /\ upc' = IF l # "unpriv" THEN upc ELSE IF ok THEN "u_chmod" ELSE "u_out"
    /\ bret' = IF l # "priv" THEN bret ELSE IF ok THEN 0 ELSE -EIO
    /\ boot_fails' = IF ok THEN boot_fails
                     ELSE boot_fails
                            \cup {IF l = "priv" THEN "start" ELSE "unpriv_start"}

\* esdm_rpcs_stale_socket: stat(path, &statbuf) and S_ISSOCK
srv_stat(l) ==
    /\ in_start(l)
    /\ start_loc[l].pc = "entry"
    /\ \E p \in PathKinds, stat_ok \in BOOLEAN :
          start_loc' = [start_loc EXCEPT
                           ![l] = [pc |-> IF p = "socket" /\ stat_ok
                                          THEN "probe" ELSE "socket",
                                   fd |-> -1, path |-> p]]
    /\ UNCHANGED <<uid, bpc, upc, fpc, priv_proto, unpriv_proto, server_exit,
                   stop_spawning, woken, conns, fd_closes, fd_opens>>
    /\ UNCHANGED <<boot_fails, bret, init_ret, wake_log>>
    /\ UNCHANGED <<conn_vars, wr_vars, sup_vars, priv_vars,
                   ep_vars, cl_vars>>

\* esdm_rpcs_stale_socket: fd = socket(PF_UNIX, SOCK_STREAM, 0), the probe
srv_probe_socket(l) ==
    /\ in_start(l)
    /\ start_loc[l].pc = "probe"
    /\ \E ok \in BOOLEAN :
          /\ start_loc' = [start_loc EXCEPT
                              ![l].pc = IF ok THEN "connect" ELSE "socket",
                              ![l].fd = IF ok THEN lowest_free ELSE -1]
          /\ fd_opens' = IF ok THEN [fd_opens EXCEPT ![lowest_free] = @ + 1]
                         ELSE fd_opens
    /\ UNCHANGED <<uid, bpc, upc, fpc, priv_proto, unpriv_proto, server_exit,
                   stop_spawning, woken, conns, fd_closes>>
    /\ UNCHANGED <<boot_fails, bret, init_ret, wake_log>>
    /\ UNCHANGED <<conn_vars, wr_vars, sup_vars, priv_vars,
                   ep_vars, cl_vars>>

\* esdm_rpcs_stale_socket: the non-blocking connect(fd, addr, addr_len)
srv_probe_connect(l) ==
    /\ in_start(l)
    /\ start_loc[l].pc = "connect"
    /\ \E c \in ConnectResults :
          start_loc' = [start_loc EXCEPT
                           ![l].pc = IF connect_live(c) THEN "close_live"
                                     ELSE "close_stale"]
    /\ UNCHANGED <<uid, bpc, upc, fpc, priv_proto, unpriv_proto, server_exit,
                   stop_spawning, woken, conns, fd_closes, fd_opens>>
    /\ UNCHANGED <<boot_fails, bret, init_ret, wake_log>>
    /\ UNCHANGED <<conn_vars, wr_vars, sup_vars, priv_vars,
                   ep_vars, cl_vars>>

\* esdm_rpcs_stale_socket: close(fd) of the probe, followed by return when
\* a listener is live and by unlink(path) otherwise
srv_probe_close(l) ==
    /\ in_start(l)
    /\ start_loc[l].pc \in {"close_live", "close_stale"}
    /\ fd_closes' = closes_after(start_loc[l].fd)
    /\ start_loc' = [start_loc EXCEPT
                        ![l].pc = IF start_loc[l].pc = "close_live"
                                  THEN "socket" ELSE "unlink",
                        ![l].fd = -1]
    /\ UNCHANGED <<uid, bpc, upc, fpc, priv_proto, unpriv_proto, server_exit,
                   stop_spawning, woken, conns, fd_opens>>
    /\ UNCHANGED <<boot_fails, bret, init_ret, wake_log>>
    /\ UNCHANGED <<conn_vars, wr_vars, sup_vars, priv_vars,
                   ep_vars, cl_vars>>

\* esdm_rpcs_stale_socket: unlink(path), its result is not looked at
srv_unlink(l) ==
    /\ in_start(l)
    /\ start_loc[l].pc = "unlink"
    /\ \E ok \in BOOLEAN :
          start_loc' = [start_loc EXCEPT
                           ![l].pc = "socket",
                           ![l].path = IF ok THEN "absent" ELSE @]
    /\ UNCHANGED <<uid, bpc, upc, fpc, priv_proto, unpriv_proto, server_exit,
                   stop_spawning, woken, conns, fd_closes, fd_opens>>
    /\ UNCHANGED <<boot_fails, bret, init_ret, wake_log>>
    /\ UNCHANGED <<conn_vars, wr_vars, sup_vars, priv_vars,
                   ep_vars, cl_vars>>

\* esdm_rpcs_start: fd = socket(protocol_family, SOCK_STREAM, 0);
\* if (fd < 0) return -errno
srv_socket(l) ==
    /\ in_start(l)
    /\ start_loc[l].pc = "socket"
    /\ \E ok \in BOOLEAN :
          IF ok
          THEN /\ start_loc' = [start_loc EXCEPT ![l].pc = "bind",
                                                 ![l].fd = lowest_free]
               /\ fd_opens' = [fd_opens EXCEPT ![lowest_free] = @ + 1]
               /\ UNCHANGED <<bpc, upc, priv_proto, unpriv_proto, bret,
                              boot_fails>>
          ELSE /\ start_return(l, -1, FALSE)
               /\ fd_opens' = fd_opens
    /\ UNCHANGED <<uid, fpc, server_exit, stop_spawning, woken, conns,
                   fd_closes>>
    /\ UNCHANGED <<init_ret, wake_log>>
    /\ UNCHANGED <<conn_vars, wr_vars, sup_vars, priv_vars,
                   ep_vars, cl_vars>>

\* esdm_rpcs_start: bind(fd, address, address_len), which fails on a path
\* that exists
srv_bind(l) ==
    /\ in_start(l)
    /\ start_loc[l].pc = "bind"
    /\ \E ok \in BOOLEAN :
          start_loc' = [start_loc EXCEPT
                           ![l].pc = IF ok /\ start_loc[l].path = "absent"
                                     THEN "listen" ELSE "fail_close"]
    /\ UNCHANGED <<uid, bpc, upc, fpc, priv_proto, unpriv_proto, server_exit,
                   stop_spawning, woken, conns, fd_closes, fd_opens>>
    /\ UNCHANGED <<boot_fails, bret, init_ret, wake_log>>
    /\ UNCHANGED <<conn_vars, wr_vars, sup_vars, priv_vars,
                   ep_vars, cl_vars>>

\* esdm_rpcs_start: listen(fd, 255); on success proto is filled and 0 is
\* returned
srv_listen(l) ==
    /\ in_start(l)
    /\ start_loc[l].pc = "listen"
    /\ \E ok \in BOOLEAN :
          IF ok
          THEN start_return(l, start_loc[l].fd, TRUE)
          ELSE /\ start_loc' = [start_loc EXCEPT ![l].pc = "fail_close"]
               /\ UNCHANGED <<bpc, upc, priv_proto, unpriv_proto, bret,
                              boot_fails>>
    /\ UNCHANGED <<uid, fpc, server_exit, stop_spawning, woken, conns,
                   fd_closes, fd_opens>>
    /\ UNCHANGED <<init_ret, wake_log>>
    /\ UNCHANGED <<conn_vars, wr_vars, sup_vars, priv_vars,
                   ep_vars, cl_vars>>

\* esdm_rpcs_start: close(fd); return -errno after bind or listen failed
srv_fail_close(l) ==
    /\ in_start(l)
    /\ start_loc[l].pc = "fail_close"
    /\ fd_closes' = closes_after(start_loc[l].fd)
    /\ start_return(l, -1, FALSE)
    /\ UNCHANGED <<uid, fpc, server_exit, stop_spawning, woken, conns,
                   fd_opens>>
    /\ UNCHANGED <<init_ret, wake_log>>
    /\ UNCHANGED <<conn_vars, wr_vars, sup_vars, priv_vars,
                   ep_vars, cl_vars>>

boot_chmod ==
    /\ bpc = "b_chmod"
    /\ \E ok \in BOOLEAN :
          /\ bpc' = IF ok THEN "b_spawn" ELSE "b_out"
          /\ bret' = IF ok THEN bret ELSE -EIO
          /\ boot_fails' = IF ok THEN boot_fails ELSE boot_fails \cup {"chmod"}
    /\ UNCHANGED <<uid, upc, fpc, priv_proto, unpriv_proto, server_exit,
                   stop_spawning, woken, conns, fd_closes, fd_opens>>
    /\ UNCHANGED <<init_ret, wake_log>>
    /\ UNCHANGED start_loc
    /\ UNCHANGED <<conn_vars, wr_vars, sup_vars, priv_vars,
                   ep_vars, cl_vars>>

\* esdm_rpcs_unpriv_init_threads: returns 0 whether or not the thread started
esdm_rpcs_unpriv_init_threads ==
    /\ bpc = "b_spawn"
    /\ \E ok \in BOOLEAN :
          /\ upc' = IF thread_start_ok(ok) THEN "u_start" ELSE upc
          /\ boot_fails' = IF thread_start_ok(ok) THEN boot_fails
                           ELSE boot_fails \cup {"spawn"}
    /\ bret' = 0
    /\ bpc' = "b_drop"
    /\ UNCHANGED <<uid, fpc, priv_proto, unpriv_proto, server_exit,
                   stop_spawning, woken, conns, fd_closes, fd_opens>>
    /\ UNCHANGED <<init_ret, wake_log>>
    /\ UNCHANGED start_loc
    /\ UNCHANGED <<conn_vars, wr_vars, sup_vars, priv_vars,
                   ep_vars, cl_vars>>

\* the results drop_privileges_permanent can have, whatever the uid of the
\* caller: the switch to the user was made and verified, or the call failed,
\* before or after the uid was switched
drop_results(u) ==
    {[ok |-> TRUE, uid |-> DropUid]}
        \cup {[ok |-> FALSE, uid |-> v] : v \in {u, DropUid}}

\* ret = drop_privileges_permanent(username ? username : "nobody"): the uid
\* of the process is what the call left, its result is in ret
drop_privileges_permanent ==
    /\ bpc = "b_drop"
    /\ \E r \in drop_results(uid) :
          /\ uid' = r.uid
          /\ bret' = IF r.ok THEN 0 ELSE DROP_FAILED
    /\ bpc' = "b_ckint"
    /\ UNCHANGED <<upc, fpc, priv_proto, unpriv_proto, server_exit,
                   stop_spawning, woken, conns, fd_closes, fd_opens>>
    /\ UNCHANGED <<boot_fails, init_ret, wake_log>>
    /\ UNCHANGED start_loc
    /\ UNCHANGED <<conn_vars, wr_vars, sup_vars, priv_vars,
                   ep_vars, cl_vars>>

\* CKINT(drop_privileges_permanent(...)): where the bootstrap continues
drop_next(ok) == IF ok THEN "b_wake" ELSE "b_out"

\* CKINT: if (ret < 0) goto out
boot_drop ==
    /\ bpc = "b_ckint"
    /\ bpc' = drop_next(bret >= 0)
    /\ boot_fails' = IF bret >= 0 THEN boot_fails ELSE boot_fails \cup {"drop"}
    /\ UNCHANGED <<uid, upc, fpc, priv_proto, unpriv_proto, server_exit,
                   stop_spawning, woken, conns, fd_closes, fd_opens>>
    /\ UNCHANGED <<bret, init_ret, wake_log>>
    /\ UNCHANGED start_loc
    /\ UNCHANGED <<conn_vars, wr_vars, sup_vars, priv_vars,
                   ep_vars, cl_vars>>

\* what a caller of thread_wake_all(&esdm_rpc_thread_init_wait) leaves
\* behind: the uid of the process and whether each endpoint has been
\* created and chmod'd at that moment
wake_record(who) ==
    [by |-> who,
     uid |-> uid,
     priv_ready |-> (priv_proto.service = "priv"
                       /\ priv_proto.server_listening_fd >= 0
                       /\ bpc # "b_chmod"
                       /\ "chmod" \notin boot_fails),
     unpriv_ready |-> (unpriv_proto.service = "unpriv"
                         /\ unpriv_proto.server_listening_fd >= 0
                         /\ upc # "u_chmod"
                         /\ "unpriv_chmod" \notin boot_fails)]

boot_wake ==
    /\ bpc = "b_wake"
    /\ upc' = thread_wake_all(upc)
    /\ woken' = woken + 1
    /\ bpc' = "b_loop"
    /\ UNCHANGED <<uid, fpc, priv_proto, unpriv_proto, server_exit,
                   stop_spawning, conns, fd_closes, fd_opens>>
    /\ wake_log' = Append(wake_log, wake_record("bootstrap"))
    /\ UNCHANGED <<boot_fails, bret, init_ret>>
    /\ UNCHANGED start_loc
    /\ UNCHANGED <<conn_vars, wr_vars, sup_vars, priv_vars,
                   ep_vars, cl_vars>>

\* out: eesdm_rpcs_stop(&priv_proto); return ret
boot_out ==
    /\ bpc = "b_out"
    /\ fd_closes' = closes_after(stop_closes(priv_proto))
    /\ fd_opens' = fd_opens
    /\ priv_proto' = eesdm_rpcs_stop(priv_proto)
    /\ bpc' = "b_ret"
    /\ UNCHANGED <<uid, upc, fpc, unpriv_proto, server_exit, stop_spawning,
                   woken, conns>>
    /\ UNCHANGED <<boot_fails, bret, init_ret, wake_log>>
    /\ UNCHANGED start_loc
    /\ UNCHANGED <<conn_vars, wr_vars, sup_vars, priv_vars,
                   ep_vars, cl_vars>>

\* esdm_rpc_server_init in the child: the result of esdm_rpcs_interfaces_init
\* is not assigned, ret keeps the 0 of thread_init and is returned
server_init_child_return ==
    /\ bpc = "b_ret"
    /\ bpc' = "b_done"
    /\ UNCHANGED <<init_ret, wake_log>>
    /\ UNCHANGED <<uid, upc, fpc, priv_proto, unpriv_proto, server_exit,
                   stop_spawning, woken, conns, fd_closes, fd_opens,
               boot_fails, bret,
                   wake_log>>
    /\ UNCHANGED start_loc
    /\ UNCHANGED <<conn_vars, wr_vars, sup_vars, priv_vars,
                   ep_vars, cl_vars>>

\* ---- esdm_rpcs_unpriv_init, step by step ----

unpriv_chmod ==
    /\ upc = "u_chmod"
    /\ \E ok \in BOOLEAN :
          /\ upc' = IF ok THEN "u_wait" ELSE "u_out"
          /\ boot_fails' = IF ok THEN boot_fails
                           ELSE boot_fails \cup {"unpriv_chmod"}
    /\ bret' = bret
    /\ UNCHANGED <<uid, bpc, fpc, priv_proto, unpriv_proto, server_exit,
                   stop_spawning, woken, conns, fd_closes, fd_opens>>
    /\ UNCHANGED <<init_ret, wake_log>>
    /\ UNCHANGED start_loc
    /\ UNCHANGED <<conn_vars, wr_vars, sup_vars, priv_vars,
                   ep_vars, cl_vars>>

\* thread_wait_event: evaluate the condition under the queue's lock; pass when
\* it holds, block on the condition variable otherwise
unpriv_wait ==
    /\ upc = "u_wait"
    /\ upc' = IF wait_condition THEN "u_loop" ELSE "u_blocked"
    /\ UNCHANGED <<uid, bpc, fpc, priv_proto, unpriv_proto, server_exit,
                   stop_spawning, woken, conns, fd_closes, fd_opens>>
    /\ UNCHANGED <<boot_fails, bret, init_ret, wake_log>>
    /\ UNCHANGED start_loc
    /\ UNCHANGED <<conn_vars, wr_vars, sup_vars, priv_vars,
                   ep_vars, cl_vars>>

\* pthread_cond_wait may return without a wake-up; the condition is re-checked
spurious_wakeup ==
    /\ upc = "u_blocked"
    /\ upc' = "u_wait"
    /\ UNCHANGED <<uid, bpc, fpc, priv_proto, unpriv_proto, server_exit,
                   stop_spawning, woken, conns, fd_closes, fd_opens>>
    /\ UNCHANGED <<boot_fails, bret, init_ret, wake_log>>
    /\ UNCHANGED start_loc
    /\ UNCHANGED <<conn_vars, wr_vars, sup_vars, priv_vars,
                   ep_vars, cl_vars>>

unpriv_out ==
    /\ upc = "u_out"
    /\ fd_closes' = closes_after(stop_closes(unpriv_proto))
    /\ fd_opens' = fd_opens
    /\ unpriv_proto' = eesdm_rpcs_stop(unpriv_proto)
    /\ upc' = "u_ret"
    /\ UNCHANGED <<uid, bpc, fpc, priv_proto, server_exit, stop_spawning,
                   woken, conns>>
    /\ UNCHANGED <<boot_fails, bret, init_ret, wake_log>>
    /\ UNCHANGED start_loc
    /\ UNCHANGED <<conn_vars, wr_vars, sup_vars, priv_vars,
                   ep_vars, cl_vars>>

\* ---- esdm_rpc_server_fini, step by step ----

fini_stop_spawning ==
    /\ fpc = "f_idle"
    /\ stop_spawning' = TRUE
    /\ fpc' = "f_exit"
    /\ UNCHANGED <<uid, bpc, upc, priv_proto, unpriv_proto, server_exit,
                   woken, conns, fd_closes, fd_opens>>
    /\ UNCHANGED <<boot_fails, bret, init_ret, wake_log>>
    /\ UNCHANGED start_loc
    /\ UNCHANGED <<conn_vars, wr_vars, sup_vars, priv_vars,
                   ep_vars, cl_vars>>

fini_set_exit ==
    /\ fpc = "f_exit"
    /\ server_exit' = 1
    /\ fpc' = "f_wake"
    /\ UNCHANGED <<uid, bpc, upc, priv_proto, unpriv_proto, stop_spawning,
                   woken, conns, fd_closes, fd_opens>>
    /\ UNCHANGED <<boot_fails, bret, init_ret, wake_log>>
    /\ UNCHANGED start_loc
    /\ UNCHANGED <<conn_vars, wr_vars, sup_vars, priv_vars,
                   ep_vars, cl_vars>>

fini_wake ==
    /\ fpc = "f_wake"
    /\ upc' = thread_wake_all(upc)
    /\ fpc' = "f_done"
    /\ UNCHANGED <<uid, bpc, priv_proto, unpriv_proto, server_exit,
                   stop_spawning, woken, conns, fd_closes, fd_opens>>
    /\ wake_log' = Append(wake_log, wake_record("fini"))
    /\ UNCHANGED <<boot_fails, bret, init_ret>>
    /\ UNCHANGED start_loc
    /\ UNCHANGED <<conn_vars, wr_vars, sup_vars, priv_vars,
                   ep_vars, cl_vars>>

\* ---- esdm_rpcs_workerloop of listener l, esdm_rpcs_handler of connection c ----

Listeners == {"priv", "unpriv"}

in_loop(l) == IF l = "priv" THEN bpc = "b_loop" ELSE upc = "u_loop"

proto_of(l) == IF l = "priv" THEN priv_proto ELSE unpriv_proto

\* one pass of the for(;;) loop in which accept() returns a descriptor
esdm_rpcs_workerloop(l) ==
    /\ in_loop(l)
    /\ proto_of(l).server_listening_fd >= 0
    /\ proto_of(l).service # "null"
    /\ Len(conns) < MaxConns
    /\ \E ok \in BOOLEAN :
          conns' = Append(conns,
                          [ep |-> l, child_fd |-> lowest_free, closes |-> 0,
                           st |-> IF thread_start_ok(ok) THEN "handler"
                                  ELSE "freed"])
    /\ fd_opens' = [fd_opens EXCEPT ![lowest_free] = @ + 1]
    /\ UNCHANGED <<uid, bpc, upc, fpc, priv_proto, unpriv_proto, server_exit,
                   stop_spawning, woken, fd_closes>>
    /\ UNCHANGED <<boot_fails, bret, init_ret, wake_log>>
    /\ UNCHANGED start_loc
    /\ UNCHANGED <<conn_vars, wr_vars, sup_vars, priv_vars,
                   ep_vars, cl_vars>>

\* calloc fails with ENOMEM: the loop returns and the caller goes to out
workerloop_enomem(l) ==
    /\ in_loop(l)
    /\ bpc' = IF l = "priv" THEN "b_out" ELSE bpc
    /\ upc' = IF l = "unpriv" THEN "u_out" ELSE upc
    /\ bret' = IF l = "priv" THEN -ENOMEM ELSE bret
    /\ boot_fails' = boot_fails
    /\ UNCHANGED <<uid, fpc, priv_proto, unpriv_proto, server_exit,
                   stop_spawning, woken, conns, fd_closes, fd_opens>>
    /\ UNCHANGED <<init_ret, wake_log>>
    /\ UNCHANGED start_loc
    /\ UNCHANGED <<conn_vars, wr_vars, sup_vars, priv_vars,
                   ep_vars, cl_vars>>

\* the handler thread of connection c leaves its loop (esdm_rpcs_read returned
\* an error), closes the descriptor and frees the record
esdm_rpcs_handler(c) ==
    /\ c \in DOMAIN conns
    /\ conns[c].st = "handler"
    /\ conns' = [conns EXCEPT ![c].st = "closed", ![c].closes = @ + 1]
    /\ fd_closes' = closes_after(conns[c].child_fd)
    /\ fd_opens' = fd_opens
    /\ UNCHANGED <<uid, bpc, upc, fpc, priv_proto, unpriv_proto, server_exit,
                   stop_spawning, woken>>
    /\ UNCHANGED <<boot_fails, bret, init_ret, wake_log>>
    /\ UNCHANGED start_loc
    /\ UNCHANGED <<conn_vars, wr_vars, sup_vars, priv_vars,
                   ep_vars, cl_vars>>

\* the server child right after fork(): priv_proto.server_listening_fd = -1
\* followed by memset(&priv_proto, 0, sizeof(priv_proto))
Init ==
    /\ StartIdle
    /\ ClientIdle
    /\ uid \in {0, DropUid}
    /\ bpc = "b_start"
    /\ upc = "u_none"
    /\ fpc = "f_idle"
    /\ priv_proto = NoProto(0)
    /\ unpriv_proto = NoProto(-1)
    /\ server_exit = 0
    /\ stop_spawning = FALSE
    /\ woken = 0
    /\ conns = <<>>
    /\ fd_closes = [fd \in Fds |-> 0]
    /\ fd_opens = [fd \in Fds |-> 0]
    /\ boot_fails = {}
    /\ bret = 0
    /\ init_ret = 0
    /\ wake_log = <<>>
    /\ start_loc = [l \in {"priv", "unpriv"} |-> StartEntry]
    /\ ConnIdle
    /\ WriteIdle
    /\ SupIdle
    /\ PrivIdle

StartSteps(l) ==
    \/ srv_stat(l)
    \/ srv_probe_socket(l)
    \/ srv_probe_connect(l)
    \/ srv_probe_close(l)
    \/ srv_unlink(l)
    \/ srv_socket(l)
    \/ srv_bind(l)
    \/ srv_listen(l)
    \/ srv_fail_close(l)

Next ==
    \/ \E l \in Listeners : StartSteps(l)
    \/ boot_chmod
    \/ esdm_rpcs_unpriv_init_threads
    \/ drop_privileges_permanent
    \/ boot_drop
    \/ boot_wake
    \/ boot_out
    \/ server_init_child_return
    \/ unpriv_chmod
    \/ unpriv_wait
    \/ spurious_wakeup
    \/ unpriv_out
    \/ fini_stop_spawning
    \/ fini_set_exit
    \/ fini_wake
    \/ \E l \in Listeners : esdm_rpcs_workerloop(l)
    \/ \E l \in Listeners : workerloop_enomem(l)
    \/ \E c \in 1..MaxConns : esdm_rpcs_handler(c)

Spec == Init /\ [][Next]_vars

\* every thread that can take its next step is scheduled: the bootstrap, the
\* unprivileged listener bootstrap, fini, and the handler threads, which
\* leave at their read timeout. accept() returning, calloc failing and a
\* spurious return of the condition wait are not owed to any thread.
SpecLive ==
    /\ Spec
    /\ \A l \in Listeners : WF_vars(StartSteps(l))
    /\ WF_vars(boot_chmod)
    /\ WF_vars(esdm_rpcs_unpriv_init_threads)
    /\ WF_vars(drop_privileges_permanent)
    /\ WF_vars(boot_drop) /\ WF_vars(boot_wake) /\ WF_vars(boot_out)
    /\ WF_vars(server_init_child_return)
    /\ WF_vars(unpriv_chmod)
    /\ WF_vars(unpriv_wait) /\ WF_vars(unpriv_out)
    /\ WF_vars(fini_stop_spawning) /\ WF_vars(fini_set_exit)
    /\ WF_vars(fini_wake)
    /\ \A c \in 1..MaxConns : WF_vars(esdm_rpcs_handler(c))

----------------------------------------------------------------------------
(* Claims about the server process (Spec) *)

UnprivConns == {c \in DOMAIN conns : conns[c].ep = "unpriv"}

\* C1: the unprivileged listener is in its accept loop, and a connection of
\* the unprivileged endpoint exists, only while the uid of the process is not 0
C1_UnprivAfterDrop ==
    (upc = "u_loop" \/ UnprivConns # {}) => uid # 0

\* fini has run, the bootstrap dropped privileges and released the barrier,
\* the unprivileged listener accepted a connection whose handler is running
C1_Witness ==
    /\ fpc = "f_done"
    /\ woken = 1
    /\ upc = "u_loop"
    /\ \E c \in UnprivConns : conns[c].st = "handler"

\* C15: once drop_privileges_permanent has failed, the bootstrap never calls
\* thread_wake_all, never enters the privileged accept loop, and the
\* unprivileged listener is never in its accept loop and has no connection
C15_FailedDropKeepsBarrier ==
    "drop" \in boot_fails =>
        /\ woken = 0
        /\ \A i \in DOMAIN wake_log : wake_log[i].by # "bootstrap"
        /\ bpc \in {"b_out", "b_ret", "b_done"}
        /\ upc # "u_loop"
        /\ conns = <<>>

\* the bootstrap steps that precede the serve state
StepsBeforeServe == {"start", "chmod", "spawn", "drop"}

\* C16: once a bootstrap step before the serve state has failed, the
\* bootstrap goes to its teardown without taking a later step, and it
\* returns a negative value with its listener stopped
C16_StepFailureAborts ==
    (boot_fails \cap StepsBeforeServe # {}) =>
        /\ bpc \in {"b_out", "b_ret", "b_done"}
        /\ bpc \in {"b_ret", "b_done"} =>
              (bret < 0 /\ priv_proto.server_listening_fd = -1)

\* the failures that are fatal to the server process
ProcessFatal == {"start", "chmod", "drop", "unpriv_start", "unpriv_chmod"}

\* C17: when esdm_rpc_server_init has returned in the child after a
\* process-fatal bootstrap failure, its result is not 0
C17_FatalFailureNonzero ==
    (bpc = "b_done" /\ boot_fails \cap ProcessFatal # {}) => init_ret # 0

\* C18: thread_wake_all on the init wait queue is called at most once, only
\* by the bootstrap, with both endpoints created and chmod'd and the uid no
\* longer 0; and the uid is not 0 in any state after a call
C18_ReleasedOnceWhenReady ==
    /\ Len(wake_log) <= 1
    /\ \A i \in DOMAIN wake_log :
          /\ wake_log[i].by = "bootstrap"
          /\ wake_log[i].priv_ready
          /\ wake_log[i].unpriv_ready
          /\ wake_log[i].uid # 0
    /\ wake_log # <<>> => uid # 0

\* no listener thread is left: the bootstrap has returned and the
\* unprivileged listener thread has returned or was never started
ListenersExited ==
    /\ bpc \in {"b_ret", "b_done"}
    /\ upc \in {"u_none", "u_ret"}

\* C19: once esdm_rpc_server_fini has completed, eventually every listener
\* thread has exited and no handler thread is left
C19_FiniStopsListeners ==
    (fpc = "f_done") ~>
        (ListenersExited /\ \A c \in DOMAIN conns : conns[c].st # "handler")

\* C26: the teardowns close no descriptor other than the listening
\* descriptors esdm_rpcs_start created, and none at all for an endpoint
\* whose esdm_rpcs_start failed: every close() of the server process is
\* matched by a socket() or accept() call that returned that number
C26_StopClosesOwnListener ==
    \A fd \in Fds : fd_closes[fd] <= fd_opens[fd]

\* C3: the descriptor of every accepted connection is closed exactly once:
\* never twice, and once when no thread holds the connection any more
C3_ClosedExactlyOnce ==
    \A c \in DOMAIN conns :
        /\ conns[c].closes <= 1
        /\ conns[c].st \in {"closed", "freed"} => conns[c].closes = 1

----------------------------------------------------------------------------
(* Claims about one connection (SpecConn) and about esdm_rpcs_write_data *)

ReplyStatus(hdr) == U32LE(SubSeq(hdr, 1, 4))
DeclaredLength(raw) == U32LE(SubSeq(raw, 5, 8))

\* C2: when a reply header is written for a request, the method_index and the
\* request_id it carries on the wire are the bytes the request carried
C2_ReplyEchoesRequest ==
    last.reply_hdr # <<>> =>
        /\ SubSeq(last.reply_hdr, 5, 8) = SubSeq(last.raw, 1, 4)
        /\ SubSeq(last.reply_hdr, 13, 16) = SubSeq(last.raw, 9, 12)

\* a second request answered on a big-endian host, carrying its own request id
C2_Witness ==
    /\ hostBE
    /\ last.n = 2
    /\ last.reply_hdr # <<>>
    /\ U32LE(SubSeq(last.reply_hdr, 13, 16)) = RequestId(2)
    /\ U32LE(SubSeq(last.reply_hdr, 5, 8)) = 1

\* C4: whenever esdm_rpcs_unpack is reached the header has been converted and
\* its message_length is at most ESDM_RPC_MAX_MSG_SIZE
C4_LengthClamped ==
    hpc = "unpack" => (parsed >= 1 /\ header.message_length <= MaxMsg)

\* a request declaring more than the maximum reaches esdm_rpcs_unpack
C4_Witness ==
    /\ hpc = "unpack"
    /\ DeclaredLength(buf) > MaxMsg
    /\ header.message_length = MaxMsg

\* C22: esdm_rpcs_unpack is reached only with the complete header and the
\* clamped number of payload bytes received, and with the header parsed
\* exactly once; the header is not parsed before it is complete, reading
\* goes on only while payload is missing, and a request of length 0 is
\* dispatched by the read that completes its header
C22_DispatchWhenComplete ==
    /\ [](/\ parsed <= 1
          /\ hpc = "unpack" =>
                /\ parsed = 1
                /\ Len(buf) >= HeaderSize
                /\ Len(buf) >= HeaderSize + header.message_length
          /\ (hpc = "read" /\ Len(buf) < HeaderSize) => parsed = 0
          /\ (hpc = "read" /\ Len(buf) >= HeaderSize) =>
                /\ parsed = 1
                /\ header.message_length > 0
                /\ Len(buf) < HeaderSize + header.message_length)
    /\ [][(parsed = 0 /\ parsed' = 1 /\ header'.message_length = 0)
             => hpc' = "unpack"]_vars

\* a request with payload reaches esdm_rpcs_unpack after partial reads
C22_Witness ==
    /\ hpc = "unpack"
    /\ resumed
    /\ header.message_length = MaxMsg
    /\ Len(buf) = HeaderSize + MaxMsg

\* C23: a request declaring MAX_MSG or more is dispatched with exactly
\* sizeof(header) + MAX_MSG bytes consumed, and the bytes received never
\* exceed the size of the receive buffer
C23_OversizeReadsMax ==
    /\ Len(buf) <= BufSize
    /\ (hpc = "read" => Len(buf) + read_size <= BufSize)
    /\ (hpc = "unpack" /\ DeclaredLength(buf) >= MaxMsg) =>
           (header.message_length = MaxMsg /\ Len(buf) = BufSize)
    /\ (last.n > 0 /\ DeclaredLength(last.raw) >= MaxMsg) =>
           last.consumed = BufSize

\* a request declaring more than MAX_MSG was dispatched and its excess
\* payload is still unread on the connection
C23_Witness ==
    /\ last.n = 1
    /\ DeclaredLength(last.raw) = MaxMsg + 1
    /\ last.consumed = BufSize
    /\ hpc = "read"
    /\ buf = <<>>
    /\ stream # <<>>
    /\ stream[1] = PayloadByte

\* C5: the server consumes exactly sizeof(header) + min(L, MAX_MSG) bytes of
\* the connection before it dispatches a request of declared length L
C5_ExactConsumption ==
    last.n > 0 =>
        last.consumed = HeaderSize + Min(DeclaredLength(last.raw), MaxMsg)

\* C6: requests are serialized: when a request is dispatched no byte past its
\* end has been read, and a new request is read only after the reply to the
\* previous one has been written
C6_Serialized ==
    /\ hpc = "unpack" => Len(buf) = HeaderSize + header.message_length
    /\ (hpc = "read" /\ last.n > 0) =>
           (last.reply_hdr # <<>> /\ ~last.write_err)

\* C7: a request whose method_index has no descriptor is answered with
\* SERVICE_FAILED and the handler goes on reading
C7_UnknownMethodAnswered ==
    last.absent =>
        /\ last.reply_hdr # <<>>
        /\ ReplyStatus(last.reply_hdr) = STATUS_SERVICE_FAILED
        /\ last.ret = 0

\* C8: a request whose deserialization returns NULL is answered with a
\* SERVICE_FAILED header
C8_UnpackFailureAnswered ==
    last.unpack_null =>
        /\ last.reply_hdr # <<>>
        /\ ReplyStatus(last.reply_hdr) = STATUS_SERVICE_FAILED

\* C9: after a failed write of a reply the handler reads no further request
\* on the connection and closes it
C9_WriteErrorFatal ==
    last.write_err => hpc \in {"close", "done"}

\* C11: a response that fails protobuf_c_message_check is answered by one
\* write of a header with status SERVICE_FAILED, message_length 0 and the
\* method_index and request_id of the request, no payload is written, the
\* header is what reaches the peer when the OS writes it in one piece, and
\* esdm_rpcs_read returns 0
C11_CheckFailureAnswered ==
    last.check_failed =>
        /\ last.writes = <<last.reply_hdr>>
        /\ Len(last.reply_hdr) = ScHeaderSize
        /\ ReplyStatus(last.reply_hdr) = STATUS_SERVICE_FAILED
        /\ U32LE(SubSeq(last.reply_hdr, 9, 12)) = 0
        /\ SubSeq(last.reply_hdr, 5, 8) = SubSeq(last.raw, 1, 4)
        /\ SubSeq(last.reply_hdr, 13, 16) = SubSeq(last.raw, 9, 12)
        /\ (last.pat_hdr = <<>> => last.delivered = last.reply_hdr)
        /\ last.ret = 0

\* the response to a second request fails the check; the handler reads on
C11_Witness ==
    /\ last.check_failed
    /\ last.n = 2
    /\ last.pat_hdr = <<>>
    /\ hpc = "read"
    /\ read_ret = 0

TimedOut == aborted.cause \in {"timeout", "eof"}

\* C12: when the read wait times out or the peer closes before a complete
\* request has arrived, nothing is dispatched and nothing is written, no
\* further request is read, and the handler closes the descriptor and exits
C12_AbortClosesSilently ==
    /\ [][(~TimedOut /\ TimedOut') =>
             (hpc' = "close" /\ last' = last /\ wire_out' = wire_out)]_vars
    /\ [](TimedOut => hpc \in {"close", "done"})
    /\ (TimedOut ~> (hpc = "done" /\ fd_closes[ConnFd] = 1))

\* the timeout struck after a partial header of the first request; the
\* handler has closed the connection without a reply
C12_Witness ==
    /\ aborted.cause = "timeout"
    /\ aborted.received \in 1..(HeaderSize - 1)
    /\ last.n = 0
    /\ wire_out = <<>>
    /\ hpc = "done"
    /\ fd_closes[ConnFd] = 1

\* C10: when esdm_rpcs_write_data returns 0 the bytes delivered are exactly
\* the data, each byte once and in order
C10_WriteDeliversData ==
    (w_result.done /\ w_result.ret = 0) => w_result.delivered = w_data

====
